---- MODULE Spec2Model ----
(***************************************************************************)
(* Model of the Profile view, src/app/(pages)/user/profile/page.tsx:       *)
(* the credential-gated fetch of the profile record (useEffect /           *)
(* fetchUserData) and the render path that maps the record to seven        *)
(* display groups.                                                         *)
(*                                                                         *)
(* Every activation of the view is one component instance i \in Views with *)
(* its own state pair (profileData, loading) and its own invocation of     *)
(* fetchUserData.  What the instance does to the outside (toasts shown,    *)
(* router pushes, HTTP requests) is logged per instance.                   *)
(***************************************************************************)
EXTENDS Naturals, Sequences, FiniteSets

\* Number of activations of the view that are modelled.
MaxViews == 2

Views == 1..MaxViews

-----------------------------------------------------------------------------
(* JavaScript values, tagged by their typeof.  v is the value's text.      *)

Undef == [t |-> "undefined", v |-> "undefined"]
Null == [t |-> "null", v |-> "null"]
Str(s) == [t |-> "string", v |-> s]
Bool(b) == [t |-> "boolean", v |-> IF b THEN "true" ELSE "false"]
Num(n) == [t |-> "number", v |-> n]
FileObj == [t |-> "object", v |-> "[object Object]"]
\* A profile record: an object whose properties are rec's domain.
Obj(rec) == [t |-> "object", props |-> rec]

\* JavaScript truthiness, as used by !x, x || y and x ? a : b.
Truthy(x) ==
  CASE x.t = "undefined" -> FALSE
    [] x.t = "null" -> FALSE
    [] x.t = "string" -> x.v # ""
    [] x.t = "boolean" -> x.v = "true"
    [] x.t = "number" -> x.v # "0"
    [] OTHER -> TRUE

\* a || b
Or(a, b) == IF Truthy(a) THEN a ELSE b

\* obj[key]: a property the object does not have reads as undefined.
Get(obj, k) == IF k \in DOMAIN obj.props THEN obj.props[k] ELSE Undef

\* `${x}` for the primitive values.
TemplateString(x) == x.v

\* The text React puts on the page for a child {x}: strings and numbers are
\* shown, booleans, null and undefined produce nothing.
ReactText(x) ==
  CASE x.t = "string" -> x.v
    [] x.t = "number" -> x.v
    [] OTHER -> ""

-----------------------------------------------------------------------------
(* The static tables of the render path.                                   *)

PersonalFields ==
  << [key |-> "name", label |-> "Full Name"],
     [key |-> "email", label |-> "Email"],
     [key |-> "dob", label |-> "Date of Birth"],
     [key |-> "phone", label |-> "Phone"],
     [key |-> "area", label |-> "Area"],
     [key |-> "landmark", label |-> "Landmark"],
     [key |-> "address", label |-> "Address"],
     [key |-> "sonOf", label |-> "Son/Daughter Of"],
     [key |-> "resident", label |-> "Resident Of"] >>

ExamFields ==
  << [key |-> "examCityPreference1", label |-> "Exam City Preference 1"],
     [key |-> "examCityPreference2", label |-> "Exam City Preference 2"] >>

\* Years of Experience and Role in CDA change places.
ExperienceFieldsSwapped ==
  << [key |-> "previousCdaExperience", label |-> "Previous CDAC Experience"],
     [key |-> "cdaExperienceRole", label |-> "Role in CDA"],
     [key |-> "cdaExperienceYears", label |-> "Years of Experience"] >>

ExperienceFields ==
  << [key |-> "previousCdaExperience", label |-> "Previous CDAC Experience"],
     [key |-> "cdaExperienceYears", label |-> "Years of Experience"],
     [key |-> "cdaExperienceRole", label |-> "Role in CDA"] >>

DocumentFields ==
  << [key |-> "photo", label |-> "Photo"],
     [key |-> "signature", label |-> "Signature"],
     [key |-> "thumbprint", label |-> "Thumbprint"] >>

BankFields ==
  << [key |-> "accountHolderName", label |-> "Account Holder Name"],
     [key |-> "bankName", label |-> "Bank Name"],
     [key |-> "ifsc", label |-> "IFSC Code"],
     [key |-> "branch", label |-> "Branch"],
     [key |-> "bankAccountNo", label |-> "Bank Account No."] >>

HealthFields ==
  << [key |-> "fever", label |-> "Fever"],
     [key |-> "cough", label |-> "Cough"],
     [key |-> "breathlessness", label |-> "Breathlessness"],
     [key |-> "soreThroat", label |-> "Sore Throat"],
     [key |-> "otherSymptoms", label |-> "Other Symptoms"],
     [key |-> "otherSymptomsDetails", label |-> "Other Symptoms Details"],
     [key |-> "closeContact", label |-> "Close Contact with COVID Case"] >>

-----------------------------------------------------------------------------
(* The render path for a present record.                                   *)

Row(key, label, text, style) ==
  [key |-> key, label |-> label, text |-> text, style |-> style]

\* The placeholder only for null and undefined (?? in place of ||).
TextRowNullish(data, key, label, style) ==
  Row(key, label,
      ReactText(IF Get(data, key) \in {Undef, Null} THEN Str("N/A") ELSE Get(data, key)),
      style)

\* {profileData[field.key] || "N/A"} inside a span of the given background.
TextRow(data, key, label, style) ==
  Row(key, label, ReactText(Or(Get(data, key), Str("N/A"))), style)

\* The label and class chosen by value !== undefined.
FlagCellPresence(value, yes, no) ==
  [text |-> IF value # Undef THEN yes ELSE no,
   style |-> IF value # Undef THEN "bg-green-100" ELSE "bg-red-100"]

\* {value ? yes : no} with class value ? "bg-green-100" : "bg-red-100".
FlagCell(value, yes, no) ==
  [text |-> IF Truthy(value) THEN yes ELSE no,
   style |-> IF Truthy(value) THEN "bg-green-100" ELSE "bg-red-100"]

FlagRow(data, key, label, yes, no) ==
  LET c == FlagCell(Get(data, key), yes, no)
  IN  Row(key, label, c.text, c.style)

\* [...].map((field) => ...) over a list of plain text fields.
TextRows(data, fields) ==
  [n \in 1..Len(fields) |->
     TextRow(data, fields[n].key, fields[n].label, "bg-gray-100")]

DocumentRows(data) ==
  [n \in 1..Len(DocumentFields) |->
     FlagRow(data, DocumentFields[n].key, DocumentFields[n].label,
             "Uploaded", "No file uploaded")]

\* The seven cards, in document order.
Groups(data) ==
  << [title |-> "Personal Details", rows |-> TextRows(data, PersonalFields)],
     [title |-> "Exam Preferences", rows |-> TextRows(data, ExamFields)],
     [title |-> "Experience", rows |-> TextRows(data, ExperienceFields)],
     [title |-> "Documents",
      rows |-> Append(DocumentRows(data),
                      TextRow(data, "aadhaarNo", "Aadhaar No.", "bg-yellow-100"))],
     [title |-> "Bank Details", rows |-> TextRows(data, BankFields)],
     [title |-> "Health Declaration",
      rows |-> Append(TextRows(data, HealthFields),
                      FlagRow(data, "covidDeclarationAgreement",
                              "COVID Declaration Agreement", "Yes", "No"))],
     [title |-> "Agreements",
      rows |-> << FlagRow(data, "penaltyClauseAgreement",
                          "Penalty Clause Agreement", "Yes", "No") >>] >>

\* {profileData.name ? `${profileData.name}` : "User Profile"}
Heading(data) ==
  IF Truthy(Get(data, "name")) THEN TemplateString(Get(data, "name")) ELSE "User Profile"

\* What one run of the component function returns.
LoaderScreen == [kind |-> "loader", heading |-> "", groups |-> << >>]
NoRecordScreen == [kind |-> "norecord", heading |-> "", groups |-> << >>]
ProfileScreen(data) ==
  [kind |-> "profile", heading |-> Heading(data), groups |-> Groups(data)]
\* Nothing on the page: the view is not mounted.
NoScreen == [kind |-> "none", heading |-> "", groups |-> << >>]

-----------------------------------------------------------------------------
(* What the environment can hand to the view.                              *)

\* The cookie "token": not set, set to the empty string, or a credential.
CookieValues == {Undef, Str(""), Str("tokA"), Str("tokB")}

TextKeys ==
  {PersonalFields[n].key : n \in 1..Len(PersonalFields)}
    \cup {ExamFields[n].key : n \in 1..Len(ExamFields)}
    \cup {ExperienceFields[n].key : n \in 1..Len(ExperienceFields)}
    \cup {BankFields[n].key : n \in 1..Len(BankFields)}
    \cup {HealthFields[n].key : n \in 1..Len(HealthFields)}
    \cup {"aadhaarNo"}

DocumentKeys == {DocumentFields[n].key : n \in 1..Len(DocumentFields)}

AgreementKeys == {"covidDeclarationAgreement", "penaltyClauseAgreement"}

\* currentDate is part of ProfileData and is shown nowhere.
RecordKeys == TextKeys \cup DocumentKeys \cup AgreementKeys \cup {"currentDate"}

\* A record with every field non-empty; each text field has its own value.
FullRecord ==
  Obj([k \in RecordKeys |->
         IF k \in DocumentKeys THEN Str("/uploads/" \o k \o ".png")
         ELSE IF k \in AgreementKeys THEN Bool(TRUE)
         ELSE Str("the " \o k)])

Override(data, k, x) == Obj([data.props EXCEPT ![k] = x])
Drop(data, k) == Obj([f \in DOMAIN data.props \ {k} |-> data.props[f]])

\* Values a JSON body can carry in a text field.
TextValues ==
  {Undef, Null, Str(""), Str("some text"), Bool(FALSE), Bool(TRUE),
   Num("0"), Num("7")}

\* Values a JSON body can carry in a document or agreement field.
FlagValues ==
  {Undef, Null, Str(""), Str("/uploads/file.png"), Bool(FALSE), Bool(TRUE),
   Num("0"), Num("1"), FileObj}

\* Bodies of a successful response in the lifecycle specification.
ApiData == {Null, FullRecord}

\* Bodies of a successful response in the rendering specification: the full
\* record with any one field replaced or left out, and the empty object.
RenderRecords ==
  {FullRecord, Obj(<< >>)}
    \cup {Drop(FullRecord, k) : k \in RecordKeys}
    \cup {Override(FullRecord, k, x) : k \in TextKeys, x \in TextValues}
    \cup {Override(FullRecord, k, x) :
            k \in DocumentKeys \cup AgreementKeys, x \in FlagValues}

\* How the awaited axios.get can end: a 2xx response with a body, a non-2xx
\* response (err.response set), or no response at all (err.response undefined).
NoResponse == [kind |-> "none", status |-> "", message |-> Undef, data |-> Null]
OkResponse(d) == [kind |-> "ok", status |-> "200", message |-> Undef, data |-> d]
HttpError(s, m) == [kind |-> "http", status |-> s, message |-> m, data |-> Null]
NetworkError == [kind |-> "network", status |-> "", message |-> Undef, data |-> Null]

ErrorStatuses == {"401", "500"}
ErrorMessages == {Undef, Str(""), Str("Server said no")}

Failures ==
  {HttpError(s, m) : s \in ErrorStatuses, m \in ErrorMessages} \cup {NetworkError}

Outcomes == {OkResponse(d) : d \in ApiData} \cup Failures

-----------------------------------------------------------------------------
(* The pieces of fetchUserData and of the component function.              *)

LoginPath == "/login"
ProfileEndpoint == "/api/auth/signup"
SessionOverText == "Session is over please login again."
DataNotFoundText == "Data is not found"
ProfileNotFoundText == "Profile is not found."

\* useRouter(): the same router object on every render.
RouterInstance == "router"

\* useState<boolean>(false)
InitialLoadingFalse == FALSE

\* useState<boolean>(true)
InitialLoading == TRUE

\* if (token === null): Cookies.get gives undefined, never null.
TokenMissingNullCheck(tok) == tok = Null

\* if (!token)
TokenMissing(tok) == ~Truthy(tok)

\* axios.get("/api/auth/signup", {headers: {Authorization: `Bearer ${token}`}})
ProfileRequest(tok) ==
  [method |-> "GET", url |-> ProfileEndpoint,
   authorization |-> "Bearer " \o TemplateString(tok)]

\* err.response?.status === 401
IsUnauthorized(r) == r.kind = "http" /\ r.status = "401"

\* The fallback text whatever the backend sent.
ErrorToastFallbackOnly(r) == DataNotFoundText

\* err.response?.data?.message || "Data is not found"
ErrorToast(r) == Or(r.message, Str(DataNotFoundText)).v

\* The toasts and pushes of the catch block.
CatchToasts(r) == IF IsUnauthorized(r) THEN << SessionOverText >> ELSE << ErrorToast(r) >>
CatchPushes(r) == IF IsUnauthorized(r) THEN << LoginPath >> ELSE << >>

\* The component function: loader, "no record" or the profile.
RenderOutput(ld, data) ==
  IF ld THEN LoaderScreen
  ELSE IF ~Truthy(data) THEN NoRecordScreen
  ELSE ProfileScreen(data)

\* return toast.error("Profile is not found.") is a call made while rendering.
RenderToasts(ld, data) ==
  IF RenderOutput(ld, data).kind = "norecord" THEN << ProfileNotFoundText >> ELSE << >>

\* useEffect without a dependency array: due after every commit.
DepsChangedAlways(prev, cur) == TRUE

\* useEffect(..., [router]): the effect is due after a commit when the
\* dependency differs from the one of its last run.
DepsChanged(prev, cur) == prev # cur

-----------------------------------------------------------------------------
VARIABLES
  cookie,       \* the value of the cookie "token"
  mounted,      \* mounted[i]: instance i is on the page
  pc,           \* pc[i]: "new", "ready", "inflight" or "done" (fetchUserData)
  loading,      \* the loading flag of instance i
  profileData,  \* the record of instance i
  dirty,        \* a state update of instance i awaits its render
  effectDue,    \* the effect of instance i is to run after the last commit
  deps,         \* the dependency value of the effect's last run
  token,        \* the const token read by fetchUserData
  resp,         \* how the awaited request of instance i ended
  screen,       \* what instance i shows
  toasts,       \* toast.error calls made by instance i, in order
  pushes,       \* router.push calls made by instance i, in order
  requests,     \* HTTP requests sent by instance i, in order
  lateSettle    \* the request of instance i ended after the instance was unmounted

vars ==
  << cookie, mounted, pc, loading, profileData, dirty, effectDue, deps, token,
     resp, screen, toasts, pushes, requests, lateSettle >>

Init ==
  /\ cookie \in CookieValues
  /\ mounted = [i \in Views |-> FALSE]
  /\ pc = [i \in Views |-> "new"]
  /\ loading = [i \in Views |-> InitialLoading]
  /\ profileData = [i \in Views |-> Null]
  /\ dirty = [i \in Views |-> FALSE]
  /\ effectDue = [i \in Views |-> FALSE]
  /\ deps = [i \in Views |-> "none"]
  /\ token = [i \in Views |-> Undef]
  /\ resp = [i \in Views |-> NoResponse]
  /\ screen = [i \in Views |-> NoScreen]
  /\ toasts = [i \in Views |-> << >>]
  /\ pushes = [i \in Views |-> << >>]
  /\ requests = [i \in Views |-> << >>]
  /\ lateSettle = [i \in Views |-> FALSE]

\* Navigation to the profile page: a new instance is mounted and rendered
\* for the first time, with the initial state.
Activate(i) ==
  /\ pc[i] = "new"
  /\ \A j \in Views : ~mounted[j]
  /\ \A j \in Views : j < i => pc[j] # "new"
  /\ mounted' = [mounted EXCEPT ![i] = TRUE]
  /\ pc' = [pc EXCEPT ![i] = "ready"]
  /\ loading' = [loading EXCEPT ![i] = InitialLoading]
  /\ profileData' = [profileData EXCEPT ![i] = Null]
  /\ screen' = [screen EXCEPT ![i] = RenderOutput(InitialLoading, Null)]
  /\ toasts' = [toasts EXCEPT ![i] = @ \o RenderToasts(InitialLoading, Null)]
  /\ effectDue' = [effectDue EXCEPT ![i] = DepsChanged(deps[i], RouterInstance)]
  /\ UNCHANGED << cookie, dirty, deps, token, resp, pushes, requests, lateSettle >>

\* The effect: fetchUserData() up to its first await, or to its end when
\* there is no token.
RunEffect(i) ==
  /\ mounted[i]
  /\ effectDue[i]
  /\ effectDue' = [effectDue EXCEPT ![i] = FALSE]
  /\ deps' = [deps EXCEPT ![i] = RouterInstance]
  /\ token' = [token EXCEPT ![i] = cookie]
  /\ IF TokenMissing(cookie)
     THEN /\ pushes' = [pushes EXCEPT ![i] = Append(@, LoginPath)]
          /\ loading' = [loading EXCEPT ![i] = FALSE]
          /\ dirty' = [dirty EXCEPT ![i] = @ \/ loading[i]]
          /\ pc' = [pc EXCEPT ![i] = "done"]
          /\ UNCHANGED requests
     ELSE /\ requests' = [requests EXCEPT ![i] = Append(@, ProfileRequest(cookie))]
          /\ loading' = [loading EXCEPT ![i] = TRUE]
          /\ dirty' = [dirty EXCEPT ![i] = @ \/ ~loading[i]]
          /\ pc' = [pc EXCEPT ![i] = "inflight"]
          /\ UNCHANGED pushes
  /\ UNCHANGED << cookie, mounted, profileData, resp, screen, toasts, lateSettle >>

\* The awaited request ends with r: the rest of the try block, or the catch
\* block, and then the finally block.
Settle(i, r) ==
  /\ pc[i] = "inflight"
  /\ pc' = [pc EXCEPT ![i] = "done"]
  /\ resp' = [resp EXCEPT ![i] = r]
  /\ profileData' = [profileData EXCEPT ![i] = IF r.kind = "ok" THEN r.data ELSE @]
  /\ toasts' = [toasts EXCEPT ![i] = IF r.kind = "ok" THEN @ ELSE @ \o CatchToasts(r)]
  /\ pushes' = [pushes EXCEPT ![i] = IF r.kind = "ok" THEN @ ELSE @ \o CatchPushes(r)]
  /\ loading' = [loading EXCEPT ![i] = FALSE]
  /\ dirty' = [dirty EXCEPT ![i] =
                 @ \/ (mounted[i] /\ (loading[i] \/ profileData'[i] # profileData[i]))]
  /\ lateSettle' = [lateSettle EXCEPT ![i] = ~mounted[i]]
  /\ UNCHANGED << cookie, mounted, effectDue, deps, token, screen, requests >>

\* React renders the instance again after a state update and commits.
Render(i) ==
  /\ mounted[i]
  /\ dirty[i]
  /\ dirty' = [dirty EXCEPT ![i] = FALSE]
  /\ screen' = [screen EXCEPT ![i] = RenderOutput(loading[i], profileData[i])]
  /\ toasts' = [toasts EXCEPT ![i] = @ \o RenderToasts(loading[i], profileData[i])]
  /\ effectDue' = [effectDue EXCEPT ![i] = DepsChanged(deps[i], RouterInstance)]
  /\ UNCHANGED << cookie, mounted, pc, loading, profileData, deps, token, resp,
                  pushes, requests, lateSettle >>

\* A cleanup function that cancels: the request of a torn-down view is
\* dropped and the rest of fetchUserData never runs.
UnmountAborting(i) ==
  /\ mounted[i]
  /\ mounted' = [mounted EXCEPT ![i] = FALSE]
  /\ screen' = [screen EXCEPT ![i] = NoScreen]
  /\ dirty' = [dirty EXCEPT ![i] = FALSE]
  /\ effectDue' = [effectDue EXCEPT ![i] = FALSE]
  /\ pc' = [pc EXCEPT ![i] = IF @ = "inflight" THEN "done" ELSE @]
  /\ UNCHANGED << cookie, loading, profileData, deps, token, resp, toasts,
                  pushes, requests, lateSettle >>

\* The view is torn down (navigation away).  The effect returns no cleanup
\* function, so nothing of fetchUserData is touched.
Unmount(i) ==
  /\ mounted[i]
  /\ mounted' = [mounted EXCEPT ![i] = FALSE]
  /\ screen' = [screen EXCEPT ![i] = NoScreen]
  /\ dirty' = [dirty EXCEPT ![i] = FALSE]
  /\ effectDue' = [effectDue EXCEPT ![i] = FALSE]
  /\ UNCHANGED << cookie, pc, loading, profileData, deps, token, resp, toasts,
                  pushes, requests, lateSettle >>

\* The cookie is set, replaced or removed by something else (login, expiry).
CookieChange ==
  /\ cookie' \in CookieValues \ {cookie}
  /\ UNCHANGED << mounted, pc, loading, profileData, dirty, effectDue, deps, token,
                  resp, screen, toasts, pushes, requests, lateSettle >>

Next ==
  \/ \E i \in Views : Activate(i)
  \/ \E i \in Views : RunEffect(i)
  \/ \E i \in Views, r \in Outcomes : Settle(i, r)
  \/ \E i \in Views : Render(i)
  \/ \E i \in Views : Unmount(i)
  \/ CookieChange

Spec == Init /\ [][Next]_vars

-----------------------------------------------------------------------------
(* The rendering specification: one activation with a credential, its      *)
(* request in flight, answered by a 2xx response carrying any record of    *)
(* RenderRecords.                                                          *)

InitRender ==
  /\ cookie = Str("tokA")
  /\ mounted = [i \in Views |-> i = 1]
  /\ pc = [i \in Views |-> IF i = 1 THEN "inflight" ELSE "new"]
  /\ loading = [i \in Views |-> InitialLoading]
  /\ profileData = [i \in Views |-> Null]
  /\ dirty = [i \in Views |-> FALSE]
  /\ effectDue = [i \in Views |-> FALSE]
  /\ deps = [i \in Views |-> IF i = 1 THEN RouterInstance ELSE "none"]
  /\ token = [i \in Views |-> IF i = 1 THEN Str("tokA") ELSE Undef]
  /\ resp = [i \in Views |-> NoResponse]
  /\ screen = [i \in Views |-> IF i = 1 THEN LoaderScreen ELSE NoScreen]
  /\ toasts = [i \in Views |-> << >>]
  /\ pushes = [i \in Views |-> << >>]
  /\ requests =
       [i \in Views |-> IF i = 1 THEN << ProfileRequest(Str("tokA")) >> ELSE << >>]
  /\ lateSettle = [i \in Views |-> FALSE]

NextRender ==
  \/ \E d \in RenderRecords : Settle(1, OkResponse(d))
  \/ Render(1)

SpecRender == InitRender /\ [][NextRender]_vars

-----------------------------------------------------------------------------
(* Properties of the fetch lifecycle, checked under Spec.                  *)

\* fetchUserData of instance i has started.
Started(i) == pc[i] \in {"inflight", "done"}

\* Instance i is on the page, fetchUserData has ended and no render is pending.
Settled(i) == mounted[i] /\ pc[i] = "done" /\ ~dirty[i]

\* The cookie values that are no credential.
NoCredential == {Undef, Str("")}

\* C1: an activation that finds no stored credential pushes "/login" and
\* sends no request at all.
C1_NoCredentialRedirectsWithoutFetch ==
  \A i \in Views :
    (Started(i) /\ token[i] \in NoCredential) =>
      /\ pushes[i] = << "/login" >>
      /\ requests[i] = << >>
      /\ pc[i] = "done"

C1_Witness ==
  \E i \in Views :
    /\ pc[i] = "done"
    /\ token[i] = Undef
    /\ pushes[i] = << "/login" >>
    /\ requests[i] = << >>

\* C2: with a credential and a 401 answer, a settled activation has made
\* exactly one toast call, the session-expired one, and one push to "/login".
C2_ExactlyOneToastOn401 ==
  \A i \in Views :
    (Settled(i) /\ resp[i].kind = "http" /\ resp[i].status = "401") =>
      /\ toasts[i] = << "Session is over please login again." >>
      /\ pushes[i] = << "/login" >>

\* C3: an activation without a credential has made no toast call by the
\* time it has settled.
C3_SilentRedirect ==
  \A i \in Views :
    (Settled(i) /\ token[i] \in NoCredential) => toasts[i] = << >>

\* The text C4 expects for a failure: its message when that is a non-empty
\* string, the fallback otherwise.
ExpectedFailureText(r) ==
  IF r.message.t = "string" /\ r.message.v # "" THEN r.message.v
  ELSE "Data is not found"

\* C4: after a failure other than 401 the handler's toast carries the
\* backend message or the fallback, nothing is pushed, the record stays
\* null and the settled view shows the "no record" branch.
C4_OtherFailureToastOnly ==
  \A i \in Views :
    (pc[i] = "done" /\ resp[i].kind \in {"http", "network"} /\ resp[i].status # "401") =>
      /\ Len(toasts[i]) >= 1
      /\ toasts[i][1] = ExpectedFailureText(resp[i])
      /\ pushes[i] = << >>
      /\ profileData[i] = Null
      /\ Settled(i) => screen[i].kind = "norecord"

C4_Witness ==
  \E i, j \in Views :
    /\ Settled(i) /\ resp[i].kind = "http" /\ resp[i].status = "500"
    /\ resp[i].message = Str("Server said no")
    /\ toasts[i][1] = "Server said no"
    /\ screen[i].kind = "norecord"
    /\ pc[j] = "done" /\ resp[j].kind = "network"
    /\ toasts[j][1] = "Data is not found"

\* C5: while the request is in flight the loading flag is set, a mounted
\* view shows the loader and nothing else, and no toast has been made.
C5_LoaderWhilePending ==
  \A i \in Views :
    pc[i] = "inflight" =>
      /\ loading[i]
      /\ mounted[i] => screen[i] = [kind |-> "loader", heading |-> "", groups |-> << >>]
      /\ screen[i].kind \notin {"profile", "norecord"}
      /\ toasts[i] = << >>

C5_Witness ==
  \E i \in Views :
    pc[i] = "inflight" /\ mounted[i] /\ loading[i] /\ screen[i].kind = "loader"

\* C6: an activation sends at most one request, a GET of the profile
\* endpoint with the credential it read as bearer, and none after a failure.
C6_SingleAttempt ==
  \A i \in Views :
    /\ Len(requests[i]) <= 1
    /\ pc[i] = "inflight" => Len(requests[i]) = 1
    /\ \A n \in 1..Len(requests[i]) :
         /\ token[i] \in {Str("tokA"), Str("tokB")}
         /\ requests[i][n] =
              [method |-> "GET", url |-> "/api/auth/signup",
               authorization |-> "Bearer " \o token[i].v]

C6_Witness ==
  \E i \in Views :
    /\ Settled(i)
    /\ resp[i].kind \in {"http", "network"}
    /\ screen[i].kind = "norecord"
    /\ Len(requests[i]) = 1
    /\ requests[i][1].authorization = "Bearer tokB"

\* C10: the request of a torn-down view stays in flight, and when it ends
\* the handler has run in full: the loading flag is cleared, a 2xx body is
\* stored, a 401 is toasted and pushed to "/login".
C10_NoCancellationOnTeardown ==
  \A i \in Views :
    (~mounted[i] /\ requests[i] # << >>) =>
      \/ pc[i] = "inflight"
      \/ /\ pc[i] = "done"
         /\ resp[i].kind \in {"ok", "http", "network"}
         /\ ~loading[i]
         /\ resp[i].kind = "ok" => profileData[i] = resp[i].data
         /\ (resp[i].kind = "http" /\ resp[i].status = "401") =>
              /\ toasts[i][1] = "Session is over please login again."
              /\ pushes[i] = << "/login" >>

C10_Witness ==
  \E i \in Views :
    /\ lateSettle[i] /\ ~mounted[i] /\ pc[i] = "done"
    /\ ~loading[i]
    /\ resp[i].kind = "http" /\ resp[i].status = "401"
    /\ toasts[i] = << "Session is over please login again." >>
    /\ pushes[i] = << "/login" >>

-----------------------------------------------------------------------------
(* Properties of the render path, checked under SpecRender.                *)

\* The rows of a screen, over all its groups.
RowsOf(scr) ==
  UNION {{scr.groups[g].rows[n] : n \in 1..Len(scr.groups[g].rows)} :
           g \in 1..Len(scr.groups)}

\* The row of a screen that shows field k.
RowOf(scr, k) == CHOOSE row \in RowsOf(scr) : row.key = k

\* Instance i shows the profile of its record.
ShowsProfile(i) == mounted[i] /\ ~dirty[i] /\ screen[i].kind = "profile"

\* The values for which the placeholder or the negative label is due.
EmptyValues == {Undef, Null, Str(""), Bool(FALSE), Num("0")}

\* The 27 text fields: the 26 of the five lists and aadhaarNo.
TextFieldKeys ==
  {"name", "email", "dob", "phone", "area", "landmark", "address", "sonOf",
   "resident", "examCityPreference1", "examCityPreference2",
   "previousCdaExperience", "cdaExperienceYears", "cdaExperienceRole",
   "accountHolderName", "bankName", "ifsc", "branch", "bankAccountNo",
   "fever", "cough", "breathlessness", "soreThroat", "otherSymptoms",
   "otherSymptomsDetails", "closeContact", "aadhaarNo"}

\* A record that lacks email shows "N/A" for it and every other text field
\* with the value of the full record.
MissingEmailShown(i) ==
  profileData[i] = Drop(FullRecord, "email") =>
    /\ RowOf(screen[i], "email").text = "N/A"
    /\ \A k \in TextFieldKeys \ {"email"} :
         RowOf(screen[i], k).text = "the " \o k

\* C7 as stated: a text field shows "N/A" for an empty, null, undefined,
\* missing, false or 0 value and any other value exactly as received.
C7_PlaceholderOrValueAsReceived ==
  \A i \in Views :
    ShowsProfile(i) =>
      /\ \A k \in TextFieldKeys :
           LET x == Get(profileData[i], k)
           IN  RowOf(screen[i], k).text = IF x \in EmptyValues THEN "N/A" ELSE x.v
      /\ MissingEmailShown(i)

\* C7 as amended: "N/A" for the empty values, a non-empty string or a
\* non-zero number exactly as received, and no text at all for true.
C7_PlaceholderOrTextAsReceived ==
  \A i \in Views :
    ShowsProfile(i) =>
      /\ \A k \in TextFieldKeys :
           LET x == Get(profileData[i], k)
           IN  RowOf(screen[i], k).text =
                 IF x \in EmptyValues THEN "N/A"
                 ELSE IF x.t \in {"string", "number"} THEN x.v
                 ELSE ""
      /\ MissingEmailShown(i)

C7_Witness ==
  /\ ShowsProfile(1)
  /\ profileData[1] = Drop(FullRecord, "email")
  /\ RowOf(screen[1], "email").text = "N/A"
  /\ RowOf(screen[1], "name").text = "the name"

\* C8: a document field shows "Uploaded" on green for a truthy value and
\* "No file uploaded" on red otherwise; an agreement field shows "Yes" on
\* green for a truthy value and "No" on red otherwise.
C8_FlagLabels ==
  \A i \in Views :
    ShowsProfile(i) =>
      /\ \A k \in {"photo", "signature", "thumbprint"} :
           LET row == RowOf(screen[i], k)
           IN  IF Get(profileData[i], k) \in EmptyValues
               THEN row.text = "No file uploaded" /\ row.style = "bg-red-100"
               ELSE row.text = "Uploaded" /\ row.style = "bg-green-100"
      /\ \A k \in {"covidDeclarationAgreement", "penaltyClauseAgreement"} :
           LET row == RowOf(screen[i], k)
           IN  IF Get(profileData[i], k) \in EmptyValues
               THEN row.text = "No" /\ row.style = "bg-red-100"
               ELSE row.text = "Yes" /\ row.style = "bg-green-100"

C8_Witness ==
  /\ ShowsProfile(1)
  /\ Get(profileData[1], "photo") = Null
  /\ RowOf(screen[1], "photo").text = "No file uploaded"
  /\ RowOf(screen[1], "photo").style = "bg-red-100"
  /\ RowOf(screen[1], "penaltyClauseAgreement").text = "Yes"
  /\ RowOf(screen[1], "penaltyClauseAgreement").style = "bg-green-100"

\* The groups and their fields, in the order C9 states.
ExpectedLayout ==
  << [title |-> "Personal Details",
      keys |-> << "name", "email", "dob", "phone", "area", "landmark",
                  "address", "sonOf", "resident" >>],
     [title |-> "Exam Preferences",
      keys |-> << "examCityPreference1", "examCityPreference2" >>],
     [title |-> "Experience",
      keys |-> << "previousCdaExperience", "cdaExperienceYears",
                  "cdaExperienceRole" >>],
     [title |-> "Documents",
      keys |-> << "photo", "signature", "thumbprint", "aadhaarNo" >>],
     [title |-> "Bank Details",
      keys |-> << "accountHolderName", "bankName", "ifsc", "branch",
                  "bankAccountNo" >>],
     [title |-> "Health Declaration",
      keys |-> << "fever", "cough", "breathlessness", "soreThroat",
                  "otherSymptoms", "otherSymptomsDetails", "closeContact",
                  "covidDeclarationAgreement" >>],
     [title |-> "Agreements", keys |-> << "penaltyClauseAgreement" >>] >>

\* The titles and field keys a screen shows, group by group.
LayoutOf(scr) ==
  [g \in 1..Len(scr.groups) |->
     [title |-> scr.groups[g].title,
      keys |-> [n \in 1..Len(scr.groups[g].rows) |-> scr.groups[g].rows[n].key]]]

\* C9: once a 2xx response with a record (not null) has been rendered, the view shows
\* the profile, its seven groups and their fields in the fixed order
\* whatever the record holds, and for the full record every text field
\* exactly as received.
C9_SevenGroupsInOrder ==
  \A i \in Views :
    (Settled(i) /\ resp[i].kind = "ok" /\ profileData[i] # Null) =>
      /\ screen[i].kind = "profile"
      /\ LayoutOf(screen[i]) = ExpectedLayout
      /\ profileData[i] = FullRecord =>
           \A k \in TextFieldKeys : RowOf(screen[i], k).text = "the " \o k

C9_Witness ==
  /\ Settled(1)
  /\ profileData[1] = FullRecord
  /\ screen[1].kind = "profile"
  /\ Len(screen[1].groups) = 7
  /\ RowOf(screen[1], "bankName").text = "the bankName"

====
